---- MODULE Spec2Model ----
(***************************************************************************)
(* A model of neo4j_graph_connector.Neo4jConnector: close, get_graph_schema *)
(* and execute_cypher_query_with_pagination, run by one synchronous caller  *)
(* against a graph database whose answers are computed from the Cypher      *)
(* texts the connector submits.                                             *)
(***************************************************************************)
EXTENDS Integers, Sequences, FiniteSets, TLC

\* ------------------------------------------------------------------ bounds
MaxNodes == 2      \* nodes in the graph at construction
MaxRels == 1       \* relationships in the graph at construction
MaxSkip == 2       \* largest skip a caller passes
MaxLimit == 2      \* largest limit a caller passes
MaxClose == 2      \* close() calls a caller makes

None == "None"

\* ------------------------------------------------------------- query text
\* A query text is a sequence of one-character strings.
Lower == <<"a","b","c","d","e","f","g","h","i","j","k","l","m",
           "n","o","p","q","r","s","t","u","v","w","x","y","z">>
Capital == <<"A","B","C","D","E","F","G","H","I","J","K","L","M",
             "N","O","P","Q","R","S","T","U","V","W","X","Y","Z">>

UpperChar(c) ==
    IF \E i \in 1..Len(Lower) : Lower[i] = c
    THEN Capital[CHOOSE i \in 1..Len(Lower) : Lower[i] = c]
    ELSE c

\* str.upper()
Upper(s) == [i \in 1..Len(s) |-> UpperChar(s[i])]

\* needle in hay
Contains(hay, needle) ==
    \E i \in 1..(Len(hay) - Len(needle) + 1) :
        SubSeq(hay, i, i + Len(needle) - 1) = needle

StartsWith(s, p) == Len(s) >= Len(p) /\ SubSeq(s, 1, Len(p)) = p
EndsWith(s, p) == Len(s) >= Len(p) /\ SubSeq(s, Len(s) - Len(p) + 1, Len(s)) = p

LIMIT == <<"L","I","M","I","T">>
SKIP == <<"S","K","I","P">>

\* " SKIP $skip LIMIT $limit"
PaginationSuffix ==
    <<" ","S","K","I","P"," ","$","s","k","i","p",
      " ","L","I","M","I","T"," ","$","l","i","m","i","t">>

\* "CALL (*) { "
CountPrefix == <<"C","A","L","L"," ","(","*",")"," ","{"," ">>
\* " } RETURN count(*) as total"
CountSuffix ==
    <<" ","}"," ","R","E","T","U","R","N"," ","c","o","u","n","t","(","*",")",
      " ","a","s"," ","t","o","t","a","l">>

\* Mutant: the count wraps the paginated text instead of the original one.
CountQueryPaginated(cypher_query) ==
    CountPrefix \o cypher_query \o PaginationSuffix \o CountSuffix

\* count_query = "CALL (*) { " f"{cypher_query} " "} RETURN count(*) as total"
CountQuery(cypher_query) == CountPrefix \o cypher_query \o CountSuffix

\* Mutant: the detection without .upper().
HasPaginationCaseSensitive(cypher_query) ==
    Contains(cypher_query, LIMIT) \/ Contains(cypher_query, SKIP)

\* "LIMIT" in cypher_query.upper() or "SKIP" in cypher_query.upper()
HasPagination(cypher_query) ==
    Contains(Upper(cypher_query), LIMIT) \/ Contains(Upper(cypher_query), SKIP)

\* f"{cypher_query} SKIP $skip LIMIT $limit"
Paginated(cypher_query) == cypher_query \o PaginationSuffix

\* The query texts a caller submits.
\* "MATCH (n) RETURN n.v"
QAll == <<"M","A","T","C","H"," ","(","n",")"," ","R","E","T","U","R","N"," ","n",".","v">>
\* "MATCH (n) WHERE n.v < $cap RETURN n.v"
QWhere ==
    <<"M","A","T","C","H"," ","(","n",")"," ","W","H","E","R","E"," ","n",".","v",
      " ","<"," ","$","c","a","p"," ","R","E","T","U","R","N"," ","n",".","v">>
\* "MATCH (n) RETURN n.v LIMIT 2"
QLimit == QAll \o <<" ","L","I","M","I","T"," ","2">>
\* "MATCH (n) RETURN n.v skip 1"
QSkipLower == QAll \o <<" ","s","k","i","p"," ","1">>
\* "MATCH (n) RETURN n.v AS Limits": LIMIT inside a column name
QAlias == QAll \o <<" ","A","S"," ","L","i","m","i","t","s">>
\* "MATCH (n) RETURN" : not a query
QBroken == <<"M","A","T","C","H"," ","(","n",")"," ","R","E","T","U","R","N">>

Queries == {QAll, QWhere, QLimit, QSkipLower, QAlias, QBroken}

\* ------------------------------------------------------------ the database
\* A node: its label list, its property-key list and the value of property v.
\* A stored value is a plain integer or a driver wrapper: Date (to_native gives
\* a datetime.date) or Time (to_native gives a datetime.time).
RelTypes == {"KNOWS", "LIVES"}

Person == [labels |-> <<"Person">>, keys |-> <<"name", "age">>, v |-> [kind |-> "int", val |-> 1]]
Born == [labels |-> <<"Person">>, keys |-> <<"name">>, v |-> [kind |-> "Date", val |-> 2]]
Unlabelled == [labels |-> <<>>, keys |-> <<"name">>, v |-> [kind |-> "int", val |-> 3]]
Citizen == [labels |-> <<"City", "Person">>, keys |-> <<"zip">>, v |-> [kind |-> "Time", val |-> 1]]
NodeKinds == {Person, Born, Unlabelled, Citizen}
\* The node another client commits while the schema is read.
Founder == [labels |-> <<"Org", "Person">>, keys |-> <<"since">>, v |-> [kind |-> "int", val |-> 0]]

SeqsUpTo(S, n) == UNION { [1..k -> S] : k \in 0..n }

Min(a, b) == IF a <= b THEN a ELSE b

RECURSIVE Distinct(_)
\* RETURN DISTINCT: the first occurrence of each record, in order
Distinct(s) ==
    IF s = <<>> THEN <<>>
    ELSE LET r == Distinct(SubSeq(s, 1, Len(s) - 1))
             x == s[Len(s)]
         IN IF \E i \in 1..Len(r) : r[i] = x THEN r ELSE Append(r, x)

\* MATCH (n) RETURN DISTINCT labels(n) AS labels, keys(n) AS properties
LabelRecords(ns) ==
    Distinct([i \in 1..Len(ns) |-> [labels |-> ns[i].labels, properties |-> ns[i].keys]])

\* MATCH (a)-[r]->(b)
\* RETURN DISTINCT type(r) AS relationship, labels(a) AS source, labels(b) AS target
RelationshipRecords(ns, rs) ==
    Distinct([i \in 1..Len(rs) |->
                [relationship |-> rs[i].type,
                 source |-> ns[rs[i].src].labels,
                 target |-> ns[rs[i].dst].labels]])

Ok(rows) == [err |-> None, rows |-> rows]
Err(kind) == [err |-> kind, rows |-> <<>>]

\* SKIP s LIMIT l applied to a row sequence
Window(rows, s, l) == SubSeq(rows, s + 1, Min(Len(rows), s + l))

AllRows(ns, col) == [i \in 1..Len(ns) |-> [c \in {col} |-> ns[i].v]]

RECURSIVE Filter(_, _)
Filter(rows, cap) ==
    IF rows = <<>> THEN <<>>
    ELSE LET x == rows[1]["n.v"]
             rest == Filter(Tail(rows), cap)
         IN IF x.kind = "int" /\ x.val < cap THEN <<rows[1]>> \o rest ELSE rest

\* The rows of a query text that carries no pagination clause.
BaseRows(text, params, ns) ==
    IF text = QAll THEN Ok(AllRows(ns, "n.v"))
    ELSE IF text = QAlias THEN Ok(AllRows(ns, "Limits"))
    ELSE IF text = QWhere
         THEN IF "cap" \in DOMAIN params
              THEN Ok(Filter(AllRows(ns, "n.v"), params["cap"]))
              ELSE Err("ParameterMissing")
    ELSE Err("CypherSyntaxError")

Digits == <<"0", "1", "2", "3", "4", "5", "6", "7", "8", "9">>
IsDigit(c) == \E i \in 1..Len(Digits) : Digits[i] = c
DigitVal(c) == (CHOOSE i \in 1..Len(Digits) : Digits[i] = c) - 1

\* text = base + " <keyword> <digit>", the keyword in any letter case
HasLiteralTail(text, keyword) ==
    LET n == Len(keyword) + 3
    IN /\ Len(text) > n
       /\ IsDigit(text[Len(text)])
       /\ Upper(SubSeq(text, Len(text) - n + 1, Len(text) - 1))
            = <<" ">> \o keyword \o <<" ">>
LiteralBase(text, keyword) == SubSeq(text, 1, Len(text) - Len(keyword) - 3)

\* What the database answers to a text that is not a count wrapper.
EvalPlain(text, params, ns) ==
    IF EndsWith(text, PaginationSuffix)
    THEN LET r == BaseRows(SubSeq(text, 1, Len(text) - Len(PaginationSuffix)), params, ns)
         IN IF r.err # None THEN r
            ELSE IF ~ ({"skip", "limit"} \subseteq DOMAIN params) THEN Err("ParameterMissing")
            ELSE Ok(Window(r.rows, params["skip"], params["limit"]))
    ELSE IF HasLiteralTail(text, LIMIT)
    THEN LET r == BaseRows(LiteralBase(text, LIMIT), params, ns)
         IN IF r.err # None THEN r ELSE Ok(Window(r.rows, 0, DigitVal(text[Len(text)])))
    ELSE IF HasLiteralTail(text, SKIP)
    THEN LET r == BaseRows(LiteralBase(text, SKIP), params, ns)
         IN IF r.err # None THEN r
            ELSE Ok(Window(r.rows, DigitVal(text[Len(text)]), Len(r.rows)))
    ELSE BaseRows(text, params, ns)

\* session.run(text, params) on the graph ns: the rows, or the error raised.
\* CALL (*) { q } RETURN count(*) as total yields one row holding the number
\* of rows of q.
Eval(text, params, ns) ==
    IF /\ StartsWith(text, CountPrefix)
       /\ EndsWith(text, CountSuffix)
       /\ Len(text) >= Len(CountPrefix) + Len(CountSuffix)
    THEN LET r == EvalPlain(SubSeq(text, Len(CountPrefix) + 1, Len(text) - Len(CountSuffix)),
                            params, ns)
         IN IF r.err # None THEN r ELSE Ok(<< [total |-> Len(r.rows)] >>)
    ELSE EvalPlain(text, params, ns)

\* ---------------------------------------------------------------- values
\* value.to_native().isoformat() if the native form is a date or datetime,
\* value.to_native() if the value has a native form, else the value itself
Normalize(value) ==
    IF value.kind \in {"Date", "Time"}
    THEN IF value.kind = "Date"
         THEN [kind |-> "str", val |-> <<"iso", value.val>>]
         ELSE [kind |-> "time", val |-> value.val]
    ELSE value

\* {key: normalized value for key, value in record.data().items()}
NormalizeRecord(record) == [c \in DOMAIN record |-> Normalize(record[c])]

\* ---------------------------------------------------- parameter mappings
\* A mapping object the caller owns lives in the heap under its reference;
\* the caller passes a reference, or None.
Refs == {"P1", "P2"}
EmptyMap == [k \in {} |-> 0]
Heap0 == [r \in Refs |-> IF r = "P1" THEN [k \in {"cap"} |-> 2] ELSE EmptyMap]

\* Mutant: skip and limit stored under each other's key.
UpdateSwapped(m, skip, limit) ==
    [k \in DOMAIN m \cup {"skip", "limit"} |->
        IF k = "skip" THEN limit ELSE IF k = "limit" THEN skip ELSE m[k]]

\* dict.update({"skip": skip, "limit": limit})
Update(m, skip, limit) ==
    [k \in DOMAIN m \cup {"skip", "limit"} |->
        IF k = "skip" THEN skip ELSE IF k = "limit" THEN limit ELSE m[k]]

\* bool(parameters): None and the empty dict are falsy
Truthy(h, ref) == ref # None /\ DOMAIN h[ref] # {}

\* parameters or {}: the caller's object itself when truthy, else a new dict
OrEmpty(h, ref) == IF Truthy(h, ref) THEN ref ELSE "fresh"

\* ------------------------------------------------------------------ state
VARIABLES
    nodes, rels,      \* the graph the database holds
    driver,           \* self._driver
    driverCloses,     \* how many times driver.close() has been called
    sessions,         \* sessions opened by the connector and not yet closed
    heap,             \* the caller's mapping objects
    pc,               \* where the running operation stands ("idle": none runs)
    call,             \* the arguments of the running (or last) operation
    loc,              \* its locals: total, _parameters, _cypher_query, results
    schema,           \* the local schema of get_graph_schema
    outcome,          \* what the last operation gave its caller
    logged,           \* whether the operation wrote to self.logger.error
    sent,             \* the session.run calls of the operation, in order
    raised,           \* the failure raised inside the operation, if any
    entry,            \* the heap as it was when the operation was entered
    observed,         \* the records get_graph_schema has folded so far
    pager             \* a caller paging through a query: its pages so far

vars == <<nodes, rels, driver, driverCloses, sessions, heap, pc, call, loc,
          schema, outcome, logged, sent, raised, entry, observed, pager>>

NoCall == [op |-> None]
\* total = None is the empty sequence, total = n the sequence <<n>>
NoTotal == <<>>
NoLoc == [total |-> NoTotal, parameters |-> None, fresh |-> EmptyMap,
          cypher_query |-> <<>>, results |-> <<>>, stream |-> <<>>]
\* schema = {"entities": {}, "relations": {}}
EmptySchema == [entities |-> EmptyMap, relations |-> EmptyMap]
NoOutcome == [kind |-> "none", error |-> None, value |-> None]
NoObserved == [labels |-> <<>>, rels |-> <<>>]
NoPager == [active |-> FALSE]

\* The failures a session raises of its own accord while a query runs or its
\* records stream in.
TransientKinds == {"ServiceUnavailable", "ConstraintError"}

\* with self.driver.session(database=self.database) as session: entering
SessionEnter(n) == n + 1
\* ... and leaving the with block, normally or by an exception
SessionExit(n) == n - 1

\* The program points inside a with block.
InWith(p) == p \in {"labels_run", "labels_fold", "rels_fold",
                    "count_run", "fetch_run", "convert"}

\* Mutant: the handler logs and returns None instead of re-raising.
SwallowError(e) == [kind |-> "value", error |-> None, value |-> None]

\* Mutant: the handler raises a QueryError in place of the failure it caught.
WrapAsQueryError(e) == [kind |-> "error", error |-> "QueryError", value |-> None]

\* except Exception as e: ...; raise e
Reraise(e) == [kind |-> "error", error |-> e, value |-> None]

\* Mutant: the session is opened without a with block, so an exception leaves
\* it open.
RaiseWithoutExit(e) ==
    /\ sessions' = sessions
    /\ logged' = TRUE
    /\ raised' = e
    /\ outcome' = [kind |-> "error", error |-> e, value |-> None]
    /\ pc' = "done"
    /\ pager' = NoPager
    /\ UNCHANGED <<nodes, rels, driver, driverCloses, heap, call, loc, schema,
                   entry, observed>>

\* An exception e raised at the current program point: the with block, if one
\* is open, closes its session; the handler logs the trace and re-raises.
Raise(e) ==
    /\ sessions' = IF InWith(pc) THEN SessionExit(sessions) ELSE sessions
    /\ logged' = TRUE
    /\ raised' = e
    /\ outcome' = Reraise(e)
    /\ pc' = "done"
    /\ pager' = NoPager
    /\ UNCHANGED <<nodes, rels, driver, driverCloses, heap, call, loc, schema,
                   entry, observed>>

\* ------------------------------------------------------------------ close
\* if self.driver: self.driver.close()
Close ==
    /\ pc = "idle"
    /\ driverCloses < MaxClose
    /\ driverCloses' = IF driver # None THEN driverCloses + 1 ELSE driverCloses
    /\ UNCHANGED <<nodes, rels, driver, sessions, heap, pc, call, loc, schema,
                   outcome, logged, sent, raised, entry, observed, pager>>

\* ------------------------------------------------------- get_graph_schema
Range(s) == {s[i] : i \in 1..Len(s)}

RECURSIVE ListOfSet(_)
\* list(set): the elements of a set, each once, in some order
ListOfSet(S) ==
    IF S = {} THEN <<>>
    ELSE LET x == CHOOSE y \in S : TRUE IN <<x>> \o ListOfSet(S \ {x})

\* d[k] = v on a dict d
Put(d, k, v) == [x \in DOMAIN d \cup {k} |-> IF x = k THEN v ELSE d[x]]

\* Mutant: the attributes of a label are overwritten by each record's keys.
MergeLabelOverwrite(entities, label, properties) ==
    LET e == IF label \in DOMAIN entities THEN entities[label]
             ELSE [attributes |-> <<>>, relations |-> <<>>]
    IN Put(entities, label, [e EXCEPT !.attributes = ListOfSet(Range(properties))])

\* if label not in schema["entities"]: schema["entities"][label] = {...}
\* schema["entities"][label]["attributes"] = list(set(attributes) | set(properties))
MergeLabel(entities, label, properties) ==
    LET e == IF label \in DOMAIN entities THEN entities[label]
             ELSE [attributes |-> <<>>, relations |-> <<>>]
    IN Put(entities, label,
           [e EXCEPT !.attributes = ListOfSet(Range(e.attributes) \cup Range(properties))])

RECURSIVE FoldLabels(_, _, _)
\* for label in labels: ...
FoldLabels(entities, labels, properties) ==
    IF labels = <<>> THEN entities
    ELSE FoldLabels(MergeLabel(entities, Head(labels), properties), Tail(labels), properties)

RECURSIVE AppendRelation(_, _, _)
\* for source in source_labels:
\*     if source in schema["entities"]: ...["relations"].append(relationship)
AppendRelation(entities, source_labels, relationship) ==
    IF source_labels = <<>> THEN entities
    ELSE LET source == Head(source_labels)
             next == IF source \in DOMAIN entities
                     THEN [entities EXCEPT ![source].relations = Append(@, relationship)]
                     ELSE entities
         IN AppendRelation(next, Tail(source_labels), relationship)

\* One relationship record folded into the schema.
FoldRelationship(sch, record) ==
    [entities |-> AppendRelation(sch.entities, record.source, record.relationship),
     relations |-> Put(sch.relations, record.relationship,
                       [source |-> IF record.source # <<>> THEN record.source[1] ELSE None,
                        target |-> IF record.target # <<>> THEN record.target[1] ELSE None])]

\* Mutant: the relations are returned as appended.
NoDedup(sch) == sch

\* for entity in schema["entities"]: relations = list(set(relations))
DedupRelations(sch) ==
    [sch EXCEPT !.entities =
        [l \in DOMAIN sch.entities |->
            [sch.entities[l] EXCEPT !.relations = ListOfSet(Range(@))]]]

\* The caller calls get_graph_schema(): schema = {...}, then the session opens.
SchemaEnter ==
    /\ pc = "idle"
    /\ call' = [op |-> "get_graph_schema"]
    /\ loc' = NoLoc
    /\ schema' = EmptySchema
    /\ outcome' = NoOutcome
    /\ logged' = FALSE
    /\ sent' = <<>>
    /\ raised' = None
    /\ entry' = heap
    /\ observed' = NoObserved
    /\ pager' = NoPager
    /\ sessions' = SessionEnter(sessions)
    /\ pc' = "labels_run"
    /\ UNCHANGED <<nodes, rels, driver, driverCloses, heap>>

\* label_results = session.run(labels_query)
SchemaRunLabels ==
    /\ pc = "labels_run"
    /\ loc' = [loc EXCEPT !.stream = LabelRecords(nodes)]
    /\ pc' = "labels_fold"
    /\ UNCHANGED <<nodes, rels, driver, driverCloses, sessions, heap, call, schema,
                   outcome, logged, sent, raised, entry, observed, pager>>

\* for record in label_results: one record folded
SchemaFoldLabel ==
    /\ pc = "labels_fold"
    /\ loc.stream # <<>>
    /\ LET record == Head(loc.stream)
       IN /\ schema' = [schema EXCEPT !.entities =
                           FoldLabels(@, record.labels, record.properties)]
          /\ observed' = [observed EXCEPT !.labels = Append(@, record)]
    /\ loc' = [loc EXCEPT !.stream = Tail(@)]
    /\ UNCHANGED <<nodes, rels, driver, driverCloses, sessions, heap, pc, call,
                   outcome, logged, sent, raised, entry, pager>>

\* relationship_results = session.run(relationships_query)
SchemaRunRelationships ==
    /\ pc = "labels_fold"
    /\ loc.stream = <<>>
    /\ loc' = [loc EXCEPT !.stream = RelationshipRecords(nodes, rels)]
    /\ pc' = "rels_fold"
    /\ UNCHANGED <<nodes, rels, driver, driverCloses, sessions, heap, call, schema,
                   outcome, logged, sent, raised, entry, observed, pager>>

\* for record in relationship_results: one record folded
SchemaFoldRelationship ==
    /\ pc = "rels_fold"
    /\ loc.stream # <<>>
    /\ schema' = FoldRelationship(schema, Head(loc.stream))
    /\ observed' = [observed EXCEPT !.rels = Append(@, Head(loc.stream))]
    /\ loc' = [loc EXCEPT !.stream = Tail(@)]
    /\ UNCHANGED <<nodes, rels, driver, driverCloses, sessions, heap, pc, call,
                   outcome, logged, sent, raised, entry, pager>>

\* The with block ends, the relations are deduplicated, the schema is returned.
SchemaReturn ==
    /\ pc = "rels_fold"
    /\ loc.stream = <<>>
    /\ sessions' = SessionExit(sessions)
    /\ schema' = DedupRelations(schema)
    /\ outcome' = [kind |-> "value", error |-> None, value |-> schema']
    /\ pc' = "done"
    /\ UNCHANGED <<nodes, rels, driver, driverCloses, heap, call, loc, logged, sent,
                   raised, entry, observed, pager>>

\* A discovery query, or the streaming of its records, fails.
SchemaFail ==
    /\ pc \in {"labels_run", "labels_fold", "rels_fold"}
    /\ \E e \in TransientKinds : Raise(e)
    /\ UNCHANGED sent

\* Another client of the database commits a node and a relationship from it
\* while the schema is being read.
DbCommit ==
    /\ pc \in {"labels_run", "labels_fold"}
    /\ Len(nodes) <= MaxNodes
    /\ \A i \in 1..Len(nodes) : nodes[i] # Founder
    /\ nodes' = Append(nodes, Founder)
    /\ rels' = Append(rels, [type |-> "KNOWS", src |-> Len(nodes) + 1, dst |-> 1])
    /\ UNCHANGED <<driver, driverCloses, sessions, heap, pc, call, loc, schema,
                   outcome, logged, sent, raised, entry, observed, pager>>

\* ---------------------------------- execute_cypher_query_with_pagination
\* The content of the mapping a local names: a caller's object or a new dict.
Deref(h, l, ref) == IF ref = "fresh" THEN l.fresh ELSE h[ref]

\* The call is entered: results = [], total = None.
Enter(cypher_query, parameters, limit, skip, get_total, paged) ==
    /\ pc = "idle"
    /\ call' = [op |-> "execute", cypher_query |-> cypher_query,
                parameters |-> parameters, limit |-> limit, skip |-> skip,
                get_total |-> get_total, paged |-> paged]
    /\ loc' = NoLoc
    /\ outcome' = NoOutcome
    /\ logged' = FALSE
    /\ sent' = <<>>
    /\ raised' = None
    /\ entry' = heap
    /\ pc' = IF get_total THEN "count_open" ELSE "build"
    /\ UNCHANGED <<nodes, rels, driver, driverCloses, sessions, heap, schema, observed>>

\* The caller calls execute_cypher_query_with_pagination(...).
ExecEnter ==
    \E cypher_query \in Queries, parameters \in Refs \cup {None},
       limit \in 0..MaxLimit, skip \in 0..MaxSkip, get_total \in BOOLEAN :
        /\ ~ pager.active
        /\ Enter(cypher_query, parameters, limit, skip, get_total, FALSE)
        /\ pager' = NoPager

\* if get_total: with self.driver.session(...) as session
ExecCountOpen ==
    /\ pc = "count_open"
    /\ sessions' = SessionEnter(sessions)
    /\ pc' = "count_run"
    /\ UNCHANGED <<nodes, rels, driver, driverCloses, heap, call, loc, schema,
                   outcome, logged, sent, raised, entry, observed, pager>>

\* total_result = session.run(count_query, parameters or {})
\* total = total_result.single()["total"]
ExecCountRun ==
    /\ pc = "count_run"
    /\ LET text == CountQuery(call.cypher_query)
           params == Deref(heap, loc, OrEmpty(heap, call.parameters))
           r == Eval(text, params, nodes)
       IN /\ sent' = Append(sent, [text |-> text, params |-> params])
          /\ IF r.err # None
             THEN Raise(r.err)
             ELSE /\ loc' = [loc EXCEPT !.total = <<r.rows[1]["total"]>>]
                  /\ sessions' = SessionExit(sessions)
                  /\ pc' = "build"
                  /\ UNCHANGED <<nodes, rels, driver, driverCloses, heap, call, schema,
                                 outcome, logged, raised, entry, observed, pager>>

\* _parameters = parameters or {}
\* if "LIMIT" in cypher_query.upper() or "SKIP" in cypher_query.upper(): ...
\* else: _cypher_query = ...; _parameters.update({"skip": skip, "limit": limit})
ExecBuild ==
    /\ pc = "build"
    /\ LET ref == OrEmpty(heap, call.parameters)
       IN IF HasPagination(call.cypher_query)
          THEN /\ loc' = [loc EXCEPT !.parameters = ref,
                                     !.cypher_query = call.cypher_query]
               /\ heap' = heap
          ELSE /\ loc' = [loc EXCEPT !.parameters = ref,
                                     !.cypher_query = Paginated(call.cypher_query),
                                     !.fresh = IF ref = "fresh"
                                               THEN Update(@, call.skip, call.limit)
                                               ELSE @]
               /\ heap' = IF ref = "fresh" THEN heap
                          ELSE [heap EXCEPT ![ref] = Update(@, call.skip, call.limit)]
    /\ pc' = "fetch_open"
    /\ UNCHANGED <<nodes, rels, driver, driverCloses, sessions, call, schema,
                   outcome, logged, sent, raised, entry, observed, pager>>

\* with self.driver.session(...) as session (the fetch)
ExecFetchOpen ==
    /\ pc = "fetch_open"
    /\ sessions' = SessionEnter(sessions)
    /\ pc' = "fetch_run"
    /\ UNCHANGED <<nodes, rels, driver, driverCloses, heap, call, loc, schema,
                   outcome, logged, sent, raised, entry, observed, pager>>

\* result = session.run(_cypher_query, _parameters)
ExecFetchRun ==
    /\ pc = "fetch_run"
    /\ LET params == Deref(heap, loc, loc.parameters)
           r == Eval(loc.cypher_query, params, nodes)
       IN /\ sent' = Append(sent, [text |-> loc.cypher_query, params |-> params])
          /\ IF r.err # None
             THEN Raise(r.err)
             ELSE /\ loc' = [loc EXCEPT !.stream = r.rows]
                  /\ pc' = "convert"
                  /\ UNCHANGED <<nodes, rels, driver, driverCloses, sessions, heap, call,
                                 schema, outcome, logged, raised, entry, observed, pager>>

\* results = [{key: ... for key, value in record.data().items()} for record in result]
\* : one record converted
ExecConvert ==
    /\ pc = "convert"
    /\ loc.stream # <<>>
    /\ loc' = [loc EXCEPT !.results = Append(@, NormalizeRecord(Head(loc.stream))),
                          !.stream = Tail(@)]
    /\ UNCHANGED <<nodes, rels, driver, driverCloses, sessions, heap, pc, call, schema,
                   outcome, logged, sent, raised, entry, observed, pager>>

\* The with block ends; return total, results. A paging caller keeps the page.
ExecReturn ==
    /\ pc = "convert"
    /\ loc.stream = <<>>
    /\ sessions' = SessionExit(sessions)
    /\ outcome' = [kind |-> "value", error |-> None,
                   value |-> [total |-> loc.total, results |-> loc.results]]
    /\ pager' = IF call.paged
                THEN [pager EXCEPT !.pages = Append(@, loc.results)]
                ELSE pager
    /\ pc' = "done"
    /\ UNCHANGED <<nodes, rels, driver, driverCloses, heap, call, loc, schema,
                   logged, sent, raised, entry, observed>>

\* The session fails of its own accord: opening it, running a query, streaming
\* or converting a record.
ExecFail ==
    /\ pc \in {"count_open", "count_run", "fetch_open", "fetch_run", "convert"}
    /\ \E e \in TransientKinds : Raise(e)
    /\ UNCHANGED sent

\* ------------------------------------------------------- a paging caller
\* The caller asks for the first page of a query: skip=0, limit=n.
PageFirst ==
    \E cypher_query \in Queries, parameters \in Refs \cup {None}, n \in 0..MaxLimit :
        /\ Enter(cypher_query, parameters, n, 0, FALSE, TRUE)
        /\ pager' = [active |-> TRUE, cypher_query |-> cypher_query,
                     parameters |-> parameters, n |-> n, pages |-> <<>>,
                     params |-> Deref(heap, NoLoc, OrEmpty(heap, parameters))]

\* ... and, after a full page, for the next one: skip = (pages so far) * n.
PageNext ==
    /\ pager.active
    /\ pager.n >= 1
    /\ pager.pages # <<>>
    /\ Len(pager.pages[Len(pager.pages)]) = pager.n
    /\ Len(pager.pages) * pager.n <= MaxSkip
    /\ Enter(pager.cypher_query, pager.parameters, pager.n,
             Len(pager.pages) * pager.n, FALSE, TRUE)
    /\ UNCHANGED pager

\* The caller stops paging.
PageStop ==
    /\ pc = "idle"
    /\ pager.active
    /\ pager' = NoPager
    /\ UNCHANGED <<nodes, rels, driver, driverCloses, sessions, heap, pc, call, loc,
                   schema, outcome, logged, sent, raised, entry, observed>>

\* ---------------------------------------------------------- the caller
\* The caller takes what the operation gave it; nothing of the call remains.
Resume ==
    /\ pc = "done"
    /\ pc' = "idle"
    /\ call' = NoCall
    /\ loc' = NoLoc
    /\ schema' = EmptySchema
    /\ outcome' = NoOutcome
    /\ logged' = FALSE
    /\ sent' = <<>>
    /\ raised' = None
    /\ entry' = heap
    /\ observed' = NoObserved
    /\ UNCHANGED <<nodes, rels, driver, driverCloses, sessions, heap, pager>>

\* --------------------------------------------------------- specifications
\* The graphs of at most MaxNodes nodes and MaxRels relationships; a
\* relationship from node i points at node Len - i + 1.
Graphs ==
    { g \in [nodes : SeqsUpTo(NodeKinds, MaxNodes),
             rels : SeqsUpTo([type : RelTypes, src : 1..MaxNodes], MaxRels)] :
        /\ g.nodes # <<>>
        /\ \A i \in 1..Len(g.rels) : g.rels[i].src <= Len(g.nodes) }

Rels(g) == [i \in 1..Len(g.rels) |->
              [type |-> g.rels[i].type, src |-> g.rels[i].src,
               dst |-> Len(g.nodes) - g.rels[i].src + 1]]

\* The state of a connector just constructed, on a graph it has not read.
Fresh ==
    /\ driver = "Driver"
    /\ driverCloses = 0
    /\ sessions = 0
    /\ heap = Heap0
    /\ pc = "idle"
    /\ call = NoCall
    /\ loc = NoLoc
    /\ schema = EmptySchema
    /\ outcome = NoOutcome
    /\ logged = FALSE
    /\ sent = <<>>
    /\ raised = None
    /\ entry = Heap0
    /\ observed = NoObserved
    /\ pager = NoPager

GetGraphSchema ==
    \/ SchemaEnter
    \/ SchemaRunLabels
    \/ SchemaFoldLabel
    \/ SchemaRunRelationships
    \/ SchemaFoldRelationship
    \/ SchemaReturn
    \/ SchemaFail

Execute ==
    \/ ExecCountOpen
    \/ ExecCountRun
    \/ ExecBuild
    \/ ExecFetchOpen
    \/ ExecFetchRun
    \/ ExecConvert
    \/ ExecReturn
    \/ ExecFail

\* The connector on the scenario graph: every operation, any order.
Init ==
    /\ nodes = <<Person, Born>>
    /\ rels = << [type |-> "KNOWS", src |-> 1, dst |-> 2] >>
    /\ Fresh

Next ==
    \/ GetGraphSchema
    \/ ExecEnter
    \/ Execute
    \/ Resume

Spec == Init /\ [][Next]_vars

\* Schema discovery on every small graph, another client writing meanwhile.
InitSchema ==
    /\ \E g \in Graphs : nodes = g.nodes /\ rels = Rels(g)
    /\ Fresh

NextSchema ==
    \/ Close
    \/ GetGraphSchema
    \/ DbCommit
    \/ Resume

SpecSchema == InitSchema /\ [][NextSchema]_vars

\* Query execution on a static dataset, by single calls and by paging callers.
InitExec ==
    /\ nodes \in {<<Person, Born>>, <<Person, Unlabelled, Citizen>>}
    /\ rels = <<>>
    /\ Fresh

NextExec ==
    \/ ExecEnter
    \/ PageFirst
    \/ PageNext
    \/ PageStop
    \/ Execute
    \/ Resume

SpecExec == InitExec /\ [][NextExec]_vars

\* ----------------------------------------------------------------- claims
NoDuplicates(s) == Cardinality(Range(s)) = Len(s)
Returned == pc = "done" /\ outcome.kind = "value"
Failed == pc = "done" /\ outcome.kind = "error"

\* The mapping the caller supplied, as it was when the call was entered.
CallerParams == IF call.parameters = None THEN EmptyMap ELSE entry[call.parameters]

\* Whether the fetch query of the running execute call has been submitted.
FetchSent ==
    /\ call.op = "execute"
    /\ pc \in {"convert", "done"}
    /\ Len(sent) = IF call.get_total THEN 2 ELSE 1

\* C1: whenever no operation is running (before a call, and after one has
\* returned or raised) no session opened by the connector is open, and never
\* is more than one open.
C1_SessionsReleased ==
    /\ sessions \in {0, 1}
    /\ pc \in {"idle", "done"} => sessions = 0

\* C1 witness: an execute call failed while its records were being converted.
C1_Witness ==
    /\ Failed
    /\ FetchSent
    /\ loc.results # <<>>
    /\ sessions = 0

\* C5: an operation in which a failure occurred gives its caller an error and
\* no value; an operation that gives a value ran without failure and to the
\* end: every record of both discovery queries folded, every row of the fetch
\* converted, the total present when asked for.
C5_NoPartialResult ==
    pc = "done" =>
        /\ raised # None => outcome.kind = "error" /\ outcome.value = None
        /\ outcome.kind = "value" =>
            /\ raised = None
            /\ loc.stream = <<>>
            /\ call.op = "get_graph_schema" =>
                /\ observed.labels = LabelRecords(nodes)
                /\ observed.rels = RelationshipRecords(nodes, rels)
            /\ call.op = "execute" =>
                /\ call.get_total => outcome.value.total # NoTotal
                /\ Len(outcome.value.results)
                     = Len(Eval(sent[Len(sent)].text, sent[Len(sent)].params, nodes).rows)

\* C5 witness: the count succeeded and the fetch then failed; the caller got
\* an error.
C5_Witness ==
    /\ Failed
    /\ call.op = "execute"
    /\ loc.total # NoTotal
    /\ outcome.value = None

\* C6 as stated: every failure reaches the caller as a QueryError.
C6_Original == Failed => outcome.error = "QueryError"

\* C6 amended: every failure reaches the caller as the very error that was
\* raised inside the operation, its kind unchanged, after being logged.
C6_ErrorReraisedVerbatim ==
    pc = "done" =>
        /\ outcome.kind = "error" => outcome.error = raised /\ raised # None /\ logged
        /\ raised # None => outcome.kind = "error"

\* C6 witness: a malformed query failed in the database and reached the
\* caller as the database's syntax error.
C6_Witness ==
    /\ Failed
    /\ call.op = "execute"
    /\ outcome.error = "CypherSyntaxError"

\* C7 as stated: the connection handle is released at most once.
C7_ReleasedAtMostOnce == driverCloses <= 1

\* C10 as stated: the caller's mapping objects hold what they held at first.
C10_CallerMappingUnchanged == heap = Heap0

\* The rows the original text of the running call yields with the caller's
\* own parameters and no pagination added.
OriginalRows == EvalPlain(call.cypher_query, CallerParams, nodes)

\* C2: when get_total is true, the total returned is the number of rows the
\* original query text yields with the parameters the caller passed and no
\* added pagination; it is determined by the text, those parameters and the
\* dataset alone, whatever skip and limit the call was given.
C2_TotalIsUnpaginatedCount ==
    (Returned /\ call.op = "execute" /\ call.get_total) =>
        /\ OriginalRows.err = None
        /\ outcome.value.total = <<Len(OriginalRows.rows)>>

\* C2 witness: a page of one record out of three came back with total 3.
C2_Witness ==
    /\ Returned
    /\ call.op = "execute"
    /\ call.get_total
    /\ call.skip = 1
    /\ Len(outcome.value.results) = 1
    /\ outcome.value.total = <<3>>

\* w occurs in text, letter case ignored
Mentions(text, w) ==
    \E i \in 0..(Len(text) - Len(w)) :
        \A k \in 1..Len(w) : UpperChar(text[i + k]) = w[k]

\* C4: if the query text contains LIMIT or SKIP in any letter case, the text
\* submitted for the fetch is the text supplied, the mapping submitted holds
\* exactly the keys and values the caller passed, and the caller's mapping
\* objects are left as they were.
C4_PassThrough ==
    (FetchSent /\ (Mentions(call.cypher_query, LIMIT) \/ Mentions(call.cypher_query, SKIP))) =>
        /\ sent[Len(sent)].text = call.cypher_query
        /\ sent[Len(sent)].params = CallerParams
        /\ heap = entry

\* C4 witness: a query ending in a lower-case skip clause was fetched with the
\* caller's own mapping.
C4_Witness ==
    /\ FetchSent
    /\ Returned
    /\ call.cypher_query = QSkipLower
    /\ call.parameters = "P1"
    /\ sent[Len(sent)].text = QSkipLower

RECURSIVE Flatten(_)
\* The pages concatenated in the order they were fetched.
Flatten(pages) ==
    IF pages = <<>> THEN <<>> ELSE Flatten(SubSeq(pages, 1, Len(pages) - 1)) \o pages[Len(pages)]

\* The full unpaginated result of the query a caller pages through.
FullResult ==
    LET r == EvalPlain(pager.cypher_query, pager.params, nodes)
    IN [i \in 1..Len(r.rows) |-> NormalizeRecord(r.rows[i])]

\* Whether a text carries a pagination clause of its own.
HasClause(text) ==
    \/ HasLiteralTail(text, LIMIT)
    \/ HasLiteralTail(text, SKIP)
    \/ EndsWith(text, PaginationSuffix)

\* The pages so far are the first records of the full result, in order, each
\* page at most n long, and all of it once a page came back short.
PagesReproduce ==
    /\ \A i \in 1..Len(pager.pages) : Len(pager.pages[i]) <= pager.n
    /\ Flatten(pager.pages)
         = SubSeq(FullResult, 1, Min(Len(FullResult), Len(pager.pages) * pager.n))
    /\ (pager.n >= 1 /\ Len(pager.pages[Len(pager.pages)]) < pager.n)
          => Flatten(pager.pages) = FullResult

\* C3 as stated: paging through any query that has no pagination clause of
\* its own gives pages of at most n records that reproduce the full result.
C3_Original ==
    (pager.active /\ pager.pages # <<>> /\ ~ HasClause(pager.cypher_query))
        => PagesReproduce

\* C3 amended: paging through a query whose text contains neither LIMIT nor
\* SKIP in any letter case gives pages of at most n records; with n >= 1 the
\* pages fetched with skip = 0, n, 2n, ... are, concatenated, the first
\* records of the full unpaginated result in order, and the whole of it once
\* a page comes back with fewer than n records.
C3_PagesReproduceResult ==
    (pager.active /\ pager.pages # <<>>
        /\ ~ Mentions(pager.cypher_query, LIMIT) /\ ~ Mentions(pager.cypher_query, SKIP))
        => PagesReproduce

\* C3 witness: three records fetched as a page of two and a page of one.
C3_Witness ==
    /\ pager.active
    /\ pager.cypher_query = QAll
    /\ pager.n = 2
    /\ Len(pager.pages) = 2
    /\ Len(pager.pages[2]) = 1
    /\ Flatten(pager.pages) = FullResult
    /\ Len(FullResult) = 3

\* The label records folded so far whose node carries label l.
Carrying(l) ==
    {i \in 1..Len(observed.labels) : l \in Range(observed.labels[i].labels)}

\* The entities are the labels of the node records folded so far, and the
\* attributes of each hold, each once, exactly the property keys of the folded
\* records carrying that label.
AttributesAreUnion ==
    call.op = "get_graph_schema" =>
        /\ DOMAIN schema.entities
             = UNION {Range(observed.labels[i].labels) : i \in 1..Len(observed.labels)}
        /\ \A l \in DOMAIN schema.entities :
              /\ NoDuplicates(schema.entities[l].attributes)
              /\ Range(schema.entities[l].attributes)
                   = UNION {Range(observed.labels[i].properties) : i \in Carrying(l)}
        /\ Returned => outcome.value = schema /\ loc.stream = <<>>

\* A step of get_graph_schema keeps every entity and every attribute of it.
AttributesGrow ==
    (call.op = "get_graph_schema" /\ call'.op = "get_graph_schema") =>
        \A l \in DOMAIN schema.entities :
            /\ l \in DOMAIN schema'.entities
            /\ Range(schema.entities[l].attributes)
                 \subseteq Range(schema'.entities[l].attributes)

\* C8: at every point of get_graph_schema the entities are the labels of the
\* node records folded so far (a node without labels adds none), and the
\* attributes of each hold, each once, exactly the property keys of the
\* folded records carrying that label; no step of the fold removes an entity
\* or an attribute; the schema returned is that of all records of the node
\* query.
C8_AttributesAreUnion == []AttributesAreUnion /\ [][AttributesGrow]_vars

\* C8 witness: Person returned with the keys of two different node records,
\* from a graph that also holds an unlabelled node.
C8_Witness ==
    /\ Returned
    /\ call.op = "get_graph_schema"
    /\ \E i \in 1..Len(observed.labels) : observed.labels[i].labels = <<>>
    /\ "Person" \in DOMAIN outcome.value.entities
    /\ Cardinality(Carrying("Person")) >= 2
    /\ Cardinality(Range(outcome.value.entities["Person"].attributes)) >= 2

\* C9: in the schema returned, type T is among the relations of entity E
\* exactly when some relationship record of type T lists E among its source
\* labels (E being an entity, which only the node pass creates); T is there
\* at most once; and every relationship record's type is a key of the
\* top-level relations map, whether or not its source labels are entities.
C9_RelationsAttributed ==
    (Returned /\ call.op = "get_graph_schema") =>
        /\ DOMAIN outcome.value.entities
             = UNION {Range(observed.labels[i].labels) : i \in 1..Len(observed.labels)}
        /\ \A e \in DOMAIN outcome.value.entities :
              /\ NoDuplicates(outcome.value.entities[e].relations)
              /\ Range(outcome.value.entities[e].relations)
                   = {observed.rels[i].relationship :
                        i \in {j \in 1..Len(observed.rels) : e \in Range(observed.rels[j].source)}}
        /\ \A i \in 1..Len(observed.rels) :
              observed.rels[i].relationship \in DOMAIN outcome.value.relations

\* C9 witness: a relationship from a node labelled Org and Person, where Org
\* is no entity: recorded at the top level and under Person, once, though
\* Person is the source in two records of that type.
C9_Witness ==
    /\ Returned
    /\ call.op = "get_graph_schema"
    /\ "Org" \notin DOMAIN outcome.value.entities
    /\ \E i \in 1..Len(observed.rels) : "Org" \in Range(observed.rels[i].source)
    /\ "KNOWS" \in DOMAIN outcome.value.relations
    /\ "Person" \in DOMAIN outcome.value.entities
    /\ outcome.value.entities["Person"].relations = <<"KNOWS">>
    /\ Cardinality({i \in 1..Len(observed.rels) :
                      observed.rels[i].relationship = "KNOWS"
                      /\ "Person" \in Range(observed.rels[i].source)}) >= 2
====
